---------------------------- MODULE Spec2Model ----------------------------
(***************************************************************************)
(* A model of the pendulum simulations: Pendulum, DampenedPendulum         *)
(* (src/pendulum.py) and DoublePendulum (src/double_pendulum.py).          *)
(*                                                                         *)
(* Numbers.  The code computes in floating point; the model computes in    *)
(* exact fixed point over the integers:                                    *)
(*   - an angle n stands for n * pi/6 radians, so that sin and cos are a   *)
(*     table of twelve entries (Sin, Cos), each scaled by SinScale;        *)
(*   - an angle given in degrees is an integer number of degrees, and      *)
(*     np.radians divides it by DegPerUnit (30 degrees = pi/6);            *)
(*   - a quotient of floats is the integer quotient rounded towards zero   *)
(*     (Quot); a numpy division by zero is the non-finite value (inf/nan), *)
(*     a Python division by zero raises ZeroDivisionError.                 *)
(* The integrator scipy.integrate.solve_ivp is not code of the repository; *)
(* it is modelled by its contract (solve_ivp): it checks the evaluation    *)
(* grid against the span, evaluates the vector field first at the initial  *)
(* state, advances from grid point to grid point by one explicit step of   *)
(* the vector field, and returns the samples it emitted.                   *)
(***************************************************************************)
EXTENDS Integers, Sequences, FiniteSets, TLC

VARIABLES cls, cfg, hasSol, sol, hasDt, dt, solDt, last

vars == <<cls, cfg, hasSol, sol, hasDt, dt, solDt, last>>

(***************************************************************************)
(* Bounds of the model.                                                    *)
(***************************************************************************)
MaxT == 2
MaxLen == 2
MaxMass == 2
MaxAngle == 3
MaxOmega == 1
Epsilon == 2

(***************************************************************************)
(* Fixed-point arithmetic.                                                 *)
(***************************************************************************)
SinScale == 100
DegPerUnit == 30
\* g=9.81 of Pendulum.__init__, in whole units
DefaultG == 10

Abs(a) == IF a < 0 THEN 0 - a ELSE a

Sign(a) == IF a < 0 THEN 0 - 1 ELSE IF a > 0 THEN 1 ELSE 0

\* a / b for b # 0, rounded towards zero
Quot(a, b) == Sign(a) * Sign(b) * (Abs(a) \div Abs(b))

SinTable == <<0, 50, 87, 100, 87, 50, 0, 0 - 50, 0 - 87, 0 - 100, 0 - 87, 0 - 50>>

\* np.sin, scaled by SinScale
Sin(n) == SinTable[(n % 12) + 1]

\* np.cos, scaled by SinScale
Cos(n) == Sin(n + 3)

\* np.radians on one number
RadiansOf(d) == Quot(d, DegPerUnit)

\* np.radians on an array: a new array, every component converted
Radians(y) == [i \in 1..Len(y) |-> RadiansOf(y[i])]

(***************************************************************************)
(* Results of a call.  kind is "ok", "nonfinite" (numpy inf/nan, no        *)
(* exception) or "raise" (exc names the exception).                        *)
(***************************************************************************)
Ok(d) == [kind |-> "ok", d |-> d, exc |-> ""]

NonFinite == [kind |-> "nonfinite", d |-> <<>>, exc |-> ""]

Raise(e) == [kind |-> "raise", d |-> <<>>, exc |-> e]

(***************************************************************************)
(* Pendulum.__call__ and DampenedPendulum.__call__: Python arithmetic on   *)
(* the instance's numbers, so a zero L (or M) raises ZeroDivisionError.    *)
(***************************************************************************)
Pendulum_call_cos(c, t, y) ==
    IF Len(y) < 2 THEN Raise("IndexError")
    ELSE IF c.L = 0 THEN Raise("ZeroDivisionError")
    ELSE Ok(<<y[2], Quot((0 - c.g) * Cos(y[1]), c.L * SinScale)>>)

Pendulum_call(c, t, y) ==
    IF Len(y) < 2 THEN Raise("IndexError")
    ELSE IF c.L = 0 THEN Raise("ZeroDivisionError")
    ELSE Ok(<<y[2], Quot((0 - c.g) * Sin(y[1]), c.L * SinScale)>>)

DampenedPendulum_call(c, t, y) ==
    IF Len(y) < 2 THEN Raise("IndexError")
    ELSE IF c.L = 0 \/ c.M = 0 THEN Raise("ZeroDivisionError")
    ELSE Ok(<<y[2], Quot((0 - c.g) * Sin(y[1]), c.L * SinScale)
                    - Quot(c.B * y[2], c.M)>>)

(***************************************************************************)
(* DoublePendulum: numerators and denominators, scaled by SinScale^2.      *)
(* The division is numpy's: a zero denominator gives inf or nan.           *)
(***************************************************************************)
_delta(theta1, theta2) == theta2 - theta1

Num1(c, theta1, theta2, omega1, omega2) ==
    c.M2 * c.L1 * omega1 * omega1 * Sin(_delta(theta1, theta2)) * Cos(_delta(theta1, theta2))
    + c.M2 * c.G * Sin(theta2) * Cos(_delta(theta1, theta2))
    + c.M2 * c.L2 * omega2 * omega2 * Sin(_delta(theta1, theta2)) * SinScale
    - (c.M1 + c.M2) * c.G * Sin(theta1) * SinScale

Den1_dropM2(c, theta1, theta2) ==
    c.M1 * c.L1 * SinScale * SinScale
    - c.M2 * c.L1 * Cos(_delta(theta1, theta2)) * Cos(_delta(theta1, theta2))

Den1(c, theta1, theta2) ==
    (c.M1 + c.M2) * c.L1 * SinScale * SinScale
    - c.M2 * c.L1 * Cos(_delta(theta1, theta2)) * Cos(_delta(theta1, theta2))

Num2(c, theta1, theta2, omega1, omega2) ==
    (0 - c.M2) * c.L2 * omega2 * omega2 * Sin(_delta(theta1, theta2)) * Cos(_delta(theta1, theta2))
    + (c.M1 + c.M2) * c.G * Sin(theta1) * Cos(_delta(theta1, theta2))
    - (c.M1 + c.M2) * c.L1 * omega1 * omega1 * Sin(_delta(theta1, theta2)) * SinScale
    - (c.M1 + c.M2) * c.G * Sin(theta2) * SinScale

Den2(c, theta1, theta2) ==
    (c.M1 + c.M2) * c.L2 * SinScale * SinScale
    - c.M2 * c.L2 * Cos(_delta(theta1, theta2)) * Cos(_delta(theta1, theta2))

\* num / den as numpy divides: no exception, no message, whatever den is
NumpyDivide(num, den) ==
    IF den = 0 THEN [fin |-> FALSE, v |-> 0, num |-> num, den |-> den,
                     exc |-> "", printed |-> ""]
    ELSE [fin |-> TRUE, v |-> Quot(num, den), num |-> num, den |-> den,
          exc |-> "", printed |-> ""]

_domega1_dt(c, theta1, theta2, omega1, omega2) ==
    NumpyDivide(Num1(c, theta1, theta2, omega1, omega2), Den1(c, theta1, theta2))

_domega2_dt(c, theta1, theta2, omega1, omega2) ==
    NumpyDivide(Num2(c, theta1, theta2, omega1, omega2), Den2(c, theta1, theta2))

DoublePendulum_call(c, t, y) ==
    IF Len(y) < 4 THEN Raise("IndexError")
    ELSE LET a1 == _domega1_dt(c, y[1], y[3], y[2], y[4])
             a2 == _domega2_dt(c, y[1], y[3], y[2], y[4])
         IN  IF a1.fin /\ a2.fin THEN Ok(<<y[2], a1.v, y[4], a2.v>>)
             ELSE NonFinite

\* the bound method self.__call__ handed to the integrator
Field(k, c, t, y) ==
    CASE k = "Pendulum" -> Pendulum_call(c, t, y)
      [] k = "DampenedPendulum" -> DampenedPendulum_call(c, t, y)
      [] OTHER -> DoublePendulum_call(c, t, y)

(***************************************************************************)
(* solve: the unit conversion, the time grid, the integrator.              *)
(***************************************************************************)
\* lines 91-92: y0 is rebound to a converted copy only for angles == "deg"
SolveY0_always(y0, angles) == Radians(y0)

SolveY0(y0, angles) == IF angles = "deg" THEN Radians(y0) ELSE y0

\* what the caller's own y0 object holds after the call: solve never writes it
CallerY0After(y0, angles) == y0

\* np.arange(0, stop, step) on integers: 0, step, 2*step, ... short of stop
ArangeLen(stop, step) ==
    LET a == IF step > 0 THEN stop ELSE 0 - stop
        s == Abs(step)
    IN  IF a > 0 THEN (a + s - 1) \div s ELSE 0

Arange(stop, step) ==
    IF step = 0 THEN [kind |-> "raise", exc |-> "ZeroDivisionError", v |-> <<>>]
    ELSE [kind |-> "ok", exc |-> "",
          v |-> [i \in 1..ArangeLen(stop, step) |-> (i - 1) * step]]

\* line 93: t = np.arange(0, T + dt, dt)
TimeGrid(T, dtArg) == Arange(T + dtArg, dtArg)

Min2(a, b) == IF a < b THEN a ELSE b

Max2(a, b) == IF a > b THEN a ELSE b

\* solve_ivp refuses evaluation times outside the span (0, T)
InSpan(T, grid) ==
    \A i \in 1..Len(grid) : Min2(0, T) <= grid[i] /\ grid[i] <= Max2(0, T)

\* the states at the grid points; a derivative that is not finite ends the
\* integration there (no instance of Spec produces one: its masses and
\* double-pendulum lengths are nonzero)
RECURSIVE Advance(_, _, _, _, _)
Advance(k, c, h, n, acc) ==
    IF Len(acc) >= n THEN acc
    ELSE LET y == acc[Len(acc)]
             f == Field(k, c, 0, y)
         IN  IF f.kind # "ok" THEN acc
             ELSE Advance(k, c, h, n,
                          Append(acc, [i \in 1..Len(y) |-> y[i] + h * f.d[i]]))

\* OdeResult: t is the emitted times, y one row per state component; with
\* nothing emitted both are the empty list
OdeResult(grid, states, dim) ==
    [t |-> SubSeq(grid, 1, Len(states)),
     y |-> IF Len(states) = 0 THEN <<>>
           ELSE [r \in 1..dim |-> [j \in 1..Len(states) |-> states[j][r]]]]

solve_ivp_from(k, c, T, y0, t_eval, h, f0) ==
    IF ~InSpan(T, t_eval) THEN [kind |-> "raise", exc |-> "ValueError"]
    ELSE IF f0.kind = "raise" THEN [kind |-> "raise", exc |-> f0.exc]
    ELSE IF f0.kind = "ok" /\ Len(f0.d) # Len(y0)
         THEN [kind |-> "raise", exc |-> "ValueError"]
    ELSE IF T = 0
         THEN [kind |-> "ok", exc |-> "",
               sol |-> OdeResult(t_eval, [j \in 1..Len(t_eval) |-> y0], Len(y0))]
    ELSE IF f0.kind = "nonfinite" \/ Len(t_eval) = 0
         THEN [kind |-> "ok", exc |-> "", sol |-> OdeResult(t_eval, <<>>, Len(y0))]
    ELSE [kind |-> "ok", exc |-> "",
          sol |-> OdeResult(t_eval, Advance(k, c, h, Len(t_eval), <<y0>>), Len(y0))]

\* solve_ivp(self.__call__, (0, T), y0, t_eval=t), the grid's step being h
solve_ivp(k, c, T, y0, t_eval, h) ==
    solve_ivp_from(k, c, T, y0, t_eval, h, Field(k, c, 0, y0))

NoSol == [t |-> <<>>, y |-> <<>>]

Instance == [hasSol |-> hasSol, sol |-> sol, hasDt |-> hasDt, dt |-> dt]

\* the outcome of one solve call: what it raised, what it handed to the
\* integrator, which attributes it wrote
SolveOut(kind, exc, ivpY0, grid, called, wroteDt) ==
    [kind |-> kind, exc |-> exc, ivpY0 |-> ivpY0, grid |-> grid,
     called |-> called, wroteDt |-> wroteDt]

\* a solve that drops the old trajectory before it integrates
Pendulum_store_clear(inst, y0c, t, r) ==
    IF t.kind = "raise"
    THEN [inst |-> inst, out |-> SolveOut("raise", t.exc, y0c, <<>>, FALSE, FALSE)]
    ELSE IF r.kind = "raise"
    THEN [inst |-> [inst EXCEPT !.hasSol = FALSE, !.sol = NoSol],
          out |-> SolveOut("raise", r.exc, y0c, t.v, TRUE, FALSE)]
    ELSE [inst |-> [inst EXCEPT !.hasSol = TRUE, !.sol = r.sol],
          out |-> SolveOut("ok", "", y0c, t.v, TRUE, FALSE)]

\* lines 93-94 of pendulum.py: the grid, the integrator, then self._sol
Pendulum_store(inst, y0c, t, r) ==
    IF t.kind = "raise"
    THEN [inst |-> inst, out |-> SolveOut("raise", t.exc, y0c, <<>>, FALSE, FALSE)]
    ELSE IF r.kind = "raise"
    THEN [inst |-> inst, out |-> SolveOut("raise", r.exc, y0c, t.v, TRUE, FALSE)]
    ELSE [inst |-> [inst EXCEPT !.hasSol = TRUE, !.sol = r.sol],
          out |-> SolveOut("ok", "", y0c, t.v, TRUE, FALSE)]

\* Pendulum.solve (inherited by DampenedPendulum)
Pendulum_solve(k, c, inst, y0, T, dtArg, angles) ==
    Pendulum_store(inst, SolveY0(y0, angles), TimeGrid(T, dtArg),
                   solve_ivp(k, c, T, SolveY0(y0, angles), TimeGrid(T, dtArg).v, dtArg))

\* lines 125-128 of double_pendulum.py: self.dt is assigned after the grid
\* is built and before the integrator runs
DoublePendulum_store(inst, dtArg, y0c, t, r) ==
    IF t.kind = "raise"
    THEN [inst |-> inst, out |-> SolveOut("raise", t.exc, y0c, <<>>, FALSE, FALSE)]
    ELSE IF r.kind = "raise"
    THEN [inst |-> [inst EXCEPT !.hasDt = TRUE, !.dt = dtArg],
          out |-> SolveOut("raise", r.exc, y0c, t.v, TRUE, TRUE)]
    ELSE [inst |-> [inst EXCEPT !.hasDt = TRUE, !.dt = dtArg,
                                !.hasSol = TRUE, !.sol = r.sol],
          out |-> SolveOut("ok", "", y0c, t.v, TRUE, TRUE)]

\* DoublePendulum.solve
DoublePendulum_solve(k, c, inst, y0, T, dtArg, angles) ==
    DoublePendulum_store(inst, dtArg, SolveY0(y0, angles), TimeGrid(T, dtArg),
                         solve_ivp(k, c, T, SolveY0(y0, angles), TimeGrid(T, dtArg).v, dtArg))

SolveEffect(k, c, inst, y0, T, dtArg, angles) ==
    IF k = "DoublePendulum" THEN DoublePendulum_solve(k, c, inst, y0, T, dtArg, angles)
    ELSE Pendulum_solve(k, c, inst, y0, T, dtArg, angles)

(***************************************************************************)
(* The properties.  A property returns an array, returns None after        *)
(* printing, or raises.                                                    *)
(***************************************************************************)
AccReturn(v) ==
    [kind |-> "return", none |-> FALSE, val |-> v, exc |-> "", msg |-> "", printed |-> ""]

AccNone(p) ==
    [kind |-> "return", none |-> TRUE, val |-> <<>>, exc |-> "", msg |-> "", printed |-> p]

AccRaise(e, m) ==
    [kind |-> "raise", none |-> FALSE, val |-> <<>>, exc |-> e, msg |-> m, printed |-> ""]

NotSolvedMsg == "You need to call solve"

\* try: return self._sol.t / except AttributeError: raise AttributeError(...)
Read_t(inst) ==
    IF ~inst.hasSol THEN AccRaise("AttributeError", NotSolvedMsg)
    ELSE AccReturn(inst.sol.t)

\* the two except clauses taken in the other order: the bare one first
Read_row_swallow(inst, i) ==
    IF ~inst.hasSol \/ Len(inst.sol.y) < i THEN AccNone("Something went wrong")
    ELSE AccReturn(inst.sol.y[i])

\* try: return self._sol.y[i] / except AttributeError: raise ... / except: print
Read_row(inst, i) ==
    IF ~inst.hasSol THEN AccRaise("AttributeError", NotSolvedMsg)
    ELSE IF Len(inst.sol.y) < i THEN AccNone("Something went wrong")
    ELSE AccReturn(inst.sol.y[i])

\* a numpy function of one property, vals being its values on the array:
\* the property's exception passes through, None is a TypeError
Lift1(a, vals) ==
    IF a.kind = "raise" THEN a
    ELSE IF a.none THEN AccRaise("TypeError", "")
    ELSE AccReturn(vals)

\* a numpy function of two properties, the left one evaluated first
Lift2(a, b, vals) ==
    IF a.kind = "raise" THEN a
    ELSE IF b.kind = "raise" THEN b
    ELSE IF a.none \/ b.none THEN AccRaise("TypeError", "")
    ELSE AccReturn(vals)

\* np.gradient(f, t): central differences, one-sided at both ends
GradientAt(f, t, i) ==
    LET lo == IF i = 1 THEN 1 ELSE i - 1
        hi == IF i = Len(f) THEN i ELSE i + 1
    IN  Quot(f[hi] - f[lo], t[hi] - t[lo])

Gradient(a, b) ==
    IF a.kind = "raise" THEN a
    ELSE IF b.kind = "raise" THEN b
    ELSE IF a.none \/ b.none THEN AccRaise("TypeError", "")
    ELSE IF Len(a.val) < 2 THEN AccRaise("ValueError", "")
    ELSE AccReturn([i \in 1..Len(a.val) |-> GradientAt(a.val, b.val, i)])

Pendulum_theta(c, inst) == Read_row(inst, 1)

Pendulum_omega(c, inst) == Read_row(inst, 2)

Pendulum_x(c, inst) ==
    LET th == Pendulum_theta(c, inst)
    IN  Lift1(th, [i \in 1..Len(th.val) |-> c.L * Sin(th.val[i])])

Pendulum_y(c, inst) ==
    LET th == Pendulum_theta(c, inst)
    IN  Lift1(th, [i \in 1..Len(th.val) |-> (0 - c.L) * Cos(th.val[i])])

Pendulum_potential(c, inst) ==
    LET yy == Pendulum_y(c, inst)
    IN  Lift1(yy, [i \in 1..Len(yy.val) |-> c.M * c.g * (yy.val[i] + c.L * SinScale)])

Pendulum_vx(c, inst) == Gradient(Pendulum_x(c, inst), Read_t(inst))

Pendulum_vy(c, inst) == Gradient(Pendulum_y(c, inst), Read_t(inst))

Pendulum_kinetic(c, inst) ==
    LET vx == Pendulum_vx(c, inst)
        vy == Pendulum_vy(c, inst)
    IN  Lift2(vx, vy, [i \in 1..Len(vx.val) |->
                          Quot(c.M * (vx.val[i] * vx.val[i] + vy.val[i] * vy.val[i]), 2)])

DoublePendulum_theta1(c, inst) == Read_row(inst, 1)

DoublePendulum_theta2(c, inst) == Read_row(inst, 3)

DoublePendulum_x1(c, inst) ==
    LET th == DoublePendulum_theta1(c, inst)
    IN  Lift1(th, [i \in 1..Len(th.val) |-> c.L1 * Sin(th.val[i])])

DoublePendulum_y1(c, inst) ==
    LET th == DoublePendulum_theta1(c, inst)
    IN  Lift1(th, [i \in 1..Len(th.val) |-> (0 - c.L1) * Cos(th.val[i])])

DoublePendulum_x2(c, inst) ==
    LET a == DoublePendulum_x1(c, inst)
        th == DoublePendulum_theta2(c, inst)
    IN  Lift2(a, th, [i \in 1..Len(a.val) |-> a.val[i] + c.L2 * Sin(th.val[i])])

DoublePendulum_y2(c, inst) ==
    LET a == DoublePendulum_y1(c, inst)
        th == DoublePendulum_theta2(c, inst)
    IN  Lift2(a, th, [i \in 1..Len(a.val) |-> a.val[i] - c.L2 * Cos(th.val[i])])

DoublePendulum_potential(c, inst) ==
    LET a == DoublePendulum_y1(c, inst)
        b == DoublePendulum_y2(c, inst)
    IN  Lift2(a, b, [i \in 1..Len(a.val) |->
                        c.M1 * c.G * (a.val[i] + c.L1 * SinScale)
                        + c.M2 * c.G * (b.val[i] + (c.L1 + c.L2) * SinScale)])

DoublePendulum_vx1(c, inst) == Gradient(DoublePendulum_x1(c, inst), Read_t(inst))

DoublePendulum_vy1(c, inst) == Gradient(DoublePendulum_y1(c, inst), Read_t(inst))

DoublePendulum_vx2(c, inst) == Gradient(DoublePendulum_x2(c, inst), Read_t(inst))

DoublePendulum_vy2(c, inst) == Gradient(DoublePendulum_y2(c, inst), Read_t(inst))

DoublePendulum_kinetic(c, inst) ==
    LET vx1 == DoublePendulum_vx1(c, inst)
        vy1 == DoublePendulum_vy1(c, inst)
        vx2 == DoublePendulum_vx2(c, inst)
        vy2 == DoublePendulum_vy2(c, inst)
        P1 == Lift2(vx1, vy1, [i \in 1..Len(vx1.val) |->
                  Quot(c.M1 * (vx1.val[i] * vx1.val[i] + vy1.val[i] * vy1.val[i]), 2)])
        P2 == Lift2(vx2, vy2, [i \in 1..Len(vx2.val) |->
                  Quot(c.M2 * (vx2.val[i] * vx2.val[i] + vy2.val[i] * vy2.val[i]), 2)])
    IN  Lift2(P1, P2, [i \in 1..Len(P1.val) |-> P1.val[i] + P2.val[i]])

PendulumProps == {"t", "theta", "omega", "x", "y", "potential", "vx", "vy", "kinetic"}

DoublePendulumProps ==
    {"t", "theta1", "theta2", "x1", "y1", "x2", "y2", "potential",
     "vx1", "vy1", "vx2", "vy2", "kinetic"}

Props(k) == IF k = "DoublePendulum" THEN DoublePendulumProps ELSE PendulumProps

\* getattr(instance, name)
Property(k, c, inst, name) ==
    IF k = "DoublePendulum"
    THEN CASE name = "t" -> Read_t(inst)
           [] name = "theta1" -> DoublePendulum_theta1(c, inst)
           [] name = "theta2" -> DoublePendulum_theta2(c, inst)
           [] name = "x1" -> DoublePendulum_x1(c, inst)
           [] name = "y1" -> DoublePendulum_y1(c, inst)
           [] name = "x2" -> DoublePendulum_x2(c, inst)
           [] name = "y2" -> DoublePendulum_y2(c, inst)
           [] name = "potential" -> DoublePendulum_potential(c, inst)
           [] name = "vx1" -> DoublePendulum_vx1(c, inst)
           [] name = "vy1" -> DoublePendulum_vy1(c, inst)
           [] name = "vx2" -> DoublePendulum_vx2(c, inst)
           [] name = "vy2" -> DoublePendulum_vy2(c, inst)
           [] OTHER -> DoublePendulum_kinetic(c, inst)
    ELSE CASE name = "t" -> Read_t(inst)
           [] name = "theta" -> Pendulum_theta(c, inst)
           [] name = "omega" -> Pendulum_omega(c, inst)
           [] name = "x" -> Pendulum_x(c, inst)
           [] name = "y" -> Pendulum_y(c, inst)
           [] name = "potential" -> Pendulum_potential(c, inst)
           [] name = "vx" -> Pendulum_vx(c, inst)
           [] name = "vy" -> Pendulum_vy(c, inst)
           [] OTHER -> Pendulum_kinetic(c, inst)

(***************************************************************************)
(* The inputs.                                                             *)
(***************************************************************************)
LenValues == (0 - 1)..MaxLen

MassValues == 0..MaxMass

TValues == (0 - 1)..MaxT

\* the step sizes a caller passes
DtValues == {0, 1, 2}

AngleUnits == {"rad", "deg"}

\* Pendulum(L=l): M and g keep their defaults
PendulumConfigs == {[L |-> l, M |-> 1, g |-> DefaultG] : l \in {0 - 1, 0, 1}}

\* DampenedPendulum(1, M=m)
DampenedConfigs ==
    {[B |-> 1, L |-> 1, M |-> m, g |-> DefaultG] : m \in {0, 1}}

\* DoublePendulum(L1=l1, G=1)
DoubleConfigs ==
    {[M1 |-> 1, M2 |-> 1, L1 |-> l1, L2 |-> 1, G |-> 1] : l1 \in {0 - 1, 1}}

\* DoublePendulum(M1, M2, L1, L2, G=1) over all the small values
AllDoubleConfigs ==
    {[M1 |-> m1, M2 |-> m2, L1 |-> l1, L2 |-> l2, G |-> 1] :
        m1 \in MassValues, m2 \in MassValues, l1 \in LenValues, l2 \in LenValues}

\* the initial conditions a caller passes: at rest and one in whole degrees;
\* for the double pendulum also one of the wrong length
Y0Values(k) ==
    IF k = "DoublePendulum"
    THEN {<<0, 0, 0, 0>>, <<30, 0, 60, 0>>, <<0, 0>>}
    ELSE {<<0, 0>>, <<60, 30>>}

TypeOK ==
    /\ cls \in {"Pendulum", "DampenedPendulum", "DoublePendulum"}
    /\ hasSol \in BOOLEAN
    /\ hasDt \in BOOLEAN
    /\ dt \in DtValues
    /\ solDt \in DtValues

(***************************************************************************)
(* Construction: __init__ stores the parameters and nothing else; there    *)
(* is no _sol and no dt attribute yet.  solDt remembers the dt argument of *)
(* the call that wrote _sol.                                               *)
(***************************************************************************)
Unsolved ==
    /\ hasSol = FALSE
    /\ sol = NoSol
    /\ hasDt = FALSE
    /\ dt = 0
    /\ solDt = 0
    /\ last = [op |-> "__init__"]

Init ==
    /\ \/ cls = "Pendulum" /\ cfg \in PendulumConfigs
       \/ cls = "DampenedPendulum" /\ cfg \in DampenedConfigs
       \/ cls = "DoublePendulum" /\ cfg \in DoubleConfigs
    /\ Unsolved

\* instance.solve(y0, T, dtArg, angles)
Solve(y0, T, dtArg, angles) ==
    \E e \in {SolveEffect(cls, cfg, Instance, y0, T, dtArg, angles)} :
        /\ hasSol' = e.inst.hasSol
        /\ sol' = e.inst.sol
        /\ hasDt' = e.inst.hasDt
        /\ dt' = e.inst.dt
        /\ solDt' = IF e.out.kind = "ok" THEN dtArg ELSE solDt
        /\ last' = [op |-> "solve",
                    call |-> [y0 |-> y0, T |-> T, dt |-> dtArg, angles |-> angles],
                    res |-> e.out,
                    y0After |-> CallerY0After(y0, angles)]
        /\ UNCHANGED <<cls, cfg>>

\* reading one property of the instance
Get(name) ==
    /\ last' = [op |-> "get", name |-> name, res |-> Property(cls, cfg, Instance, name)]
    /\ UNCHANGED <<cls, cfg, hasSol, sol, hasDt, dt, solDt>>

\* instance(0, y), as the tests call it
Call(y) ==
    /\ last' = [op |-> "__call__", y |-> y, res |-> Field(cls, cfg, 0, y)]
    /\ UNCHANGED <<cls, cfg, hasSol, sol, hasDt, dt, solDt>>

Next ==
    \/ \E y \in Y0Values(cls), T \in TValues, d \in DtValues, a \in AngleUnits :
          Solve(y, T, d, a)
    \/ \E name \in Props(cls) : Get(name)
    \/ \E y \in Y0Values(cls) : Call(y)

Spec == Init /\ [][Next]_vars

(***************************************************************************)
(* The two angular accelerations as pure functions, over every small       *)
(* configuration and every pair of angles.                                 *)
(***************************************************************************)
Angles == 0..MaxAngle

Omegas == 0..MaxOmega

FieldInit ==
    /\ cls = "DoublePendulum"
    /\ cfg \in AllDoubleConfigs
    /\ hasSol = FALSE
    /\ sol = NoSol
    /\ hasDt = FALSE
    /\ dt = 0
    /\ solDt = 0
    /\ \E t1 \in Angles, t2 \in Angles, o1 \in Omegas, o2 \in Omegas :
          last = [op |-> "args", args |-> <<t1, t2, o1, o2>>]

Eval_domega1_dt(theta1, theta2, omega1, omega2) ==
    /\ last.op = "args"
    /\ last.args = <<theta1, theta2, omega1, omega2>>
    /\ last' = [op |-> "_domega1_dt", args |-> <<theta1, theta2, omega1, omega2>>,
                res |-> _domega1_dt(cfg, theta1, theta2, omega1, omega2)]
    /\ UNCHANGED <<cls, cfg, hasSol, sol, hasDt, dt, solDt>>

Eval_domega2_dt(theta1, theta2, omega1, omega2) ==
    /\ last.op = "args"
    /\ last.args = <<theta1, theta2, omega1, omega2>>
    /\ last' = [op |-> "_domega2_dt", args |-> <<theta1, theta2, omega1, omega2>>,
                res |-> _domega2_dt(cfg, theta1, theta2, omega1, omega2)]
    /\ UNCHANGED <<cls, cfg, hasSol, sol, hasDt, dt, solDt>>

FieldNext ==
    \/ \E t1 \in Angles, t2 \in Angles, o1 \in Omegas, o2 \in Omegas :
          Eval_domega1_dt(t1, t2, o1, o2)
    \/ \E t1 \in Angles, t2 \in Angles, o1 \in Omegas, o2 \in Omegas :
          Eval_domega2_dt(t1, t2, o1, o2)

FieldSpec == FieldInit /\ [][FieldNext]_vars

(***************************************************************************)
(* What the claims speak of.                                               *)
(***************************************************************************)
\* a configuration the data model admits: every length and mass positive
ValidConfig ==
    IF cls = "DoublePendulum"
    THEN cfg.M1 > 0 /\ cfg.M2 > 0 /\ cfg.L1 > 0 /\ cfg.L2 > 0
    ELSE cfg.L > 0 /\ cfg.M > 0

Dim == IF cls = "DoublePendulum" THEN 4 ELSE 2

ZeroState == [i \in 1..Dim |-> 0]

AllZero(v) == \A i \in 1..Len(v) : v[i] = 0

NotSolvedYet(r) ==
    r.kind = "raise" /\ r.exc = "AttributeError" /\ r.msg = NotSolvedMsg

\* the properties that read the stored trajectory directly
TrajectoryProps == {"t", "theta", "omega", "theta1", "theta2"}

\* the row of _sol.y a trajectory property reads
RowOf(name) ==
    CASE name \in {"theta", "theta1"} -> 1
      [] name = "omega" -> 2
      [] OTHER -> 3

\* the grid the specification describes: i*dt for i = 0..floor(T/dt), then T
\* when T is not a multiple of dt
SpecGrid(T, d) ==
    [i \in 1..((T \div d) + 1) |-> (i - 1) * d]
        \o (IF T % d = 0 THEN <<>> ELSE <<T>>)

\* what the integrator returns for a call, computed from the call alone
ResultOf(call) ==
    solve_ivp(cls, cfg, call.T,
              IF call.angles = "deg" THEN Radians(call.y0) ELSE call.y0,
              TimeGrid(call.T, call.dt).v, call.dt)

(***************************************************************************)
(* C1.  On an instance that holds no trajectory (in particular one on      *)
(* which solve was never called) every property, read directly or through  *)
(* the properties derived from it, raises AttributeError("You need to call *)
(* solve"); none returns a value.                                          *)
(***************************************************************************)
C1_UnsolvedAccessRaises ==
    ~hasSol =>
        /\ \A name \in Props(cls) : NotSolvedYet(Property(cls, cfg, Instance, name))
        /\ last.op = "get" => NotSolvedYet(last.res)

C1_Witness ==
    /\ ~hasSol
    /\ ~hasDt
    /\ cls = "DoublePendulum"
    /\ last.op = "get"
    /\ last.name = "kinetic"

(***************************************************************************)
(* C2.  For T > 0 and dt > 0 the grid handed to the integrator is i*dt for *)
(* i = 0..floor(T/dt), followed by T when T is not a multiple of dt, and   *)
(* every time of it lies in [0, T].                                        *)
(***************************************************************************)
C2_TimeGrid ==
    (last.op = "solve" /\ ValidConfig /\ last.call.T > 0 /\ last.call.dt > 0) =>
        /\ last.res.grid = SpecGrid(last.call.T, last.call.dt)
        /\ \A i \in 1..Len(last.res.grid) :
              0 <= last.res.grid[i] /\ last.res.grid[i] <= last.call.T

(***************************************************************************)
(* C3.  A solve with L <= 0, dt <= 0 or T <= 0 fails and stores no         *)
(* trajectory: it raises (whichever exception stands for                   *)
(* InvalidConfiguration) and leaves _sol as it was.                        *)
(***************************************************************************)
InvalidArgs(call) ==
    \/ call.dt <= 0
    \/ call.T <= 0
    \/ IF cls = "DoublePendulum" THEN cfg.L1 <= 0 \/ cfg.L2 <= 0 ELSE cfg.L <= 0

C3_InvalidConfiguration ==
    [][(last'.op = "solve" /\ InvalidArgs(last'.call)) =>
          /\ last'.res.kind = "raise"
          /\ hasSol' = hasSol
          /\ sol' = sol]_vars

(***************************************************************************)
(* C4.  In t, theta, omega, theta1 and theta2 an error other than "not     *)
(* solved yet" is never replaced by a printed message and a None return,   *)
(* and "not solved yet" is never raised while a trajectory is stored.      *)
(***************************************************************************)
C4_ErrorsPropagate ==
    (last.op = "get" /\ ValidConfig /\ last.name \in TrajectoryProps) =>
        /\ ~(last.res.kind = "return" /\ last.res.none)
        /\ last.res.printed = ""
        /\ hasSol => ~NotSolvedYet(last.res)

(***************************************************************************)
(* C5.  The life cycle: a model starts Unsolved; only a solve that returns *)
(* makes it Solved; once Solved it stays Solved under every later solve    *)
(* and read; after a solve that returned, the stored trajectory is the     *)
(* result of that call alone, and t, theta, omega (theta1, theta2), when   *)
(* they return an array, return that trajectory's.                         *)
(***************************************************************************)
C5_Step ==
    /\ hasSol => hasSol'
    /\ (hasSol' # hasSol \/ sol' # sol) =>
          last'.op = "solve" /\ last'.res.kind = "ok"
    /\ (last'.op = "solve" /\ last'.res.kind = "ok") =>
          hasSol' /\ sol' = ResultOf(last'.call).sol
    /\ (last'.op = "get" /\ last'.name \in TrajectoryProps /\ hasSol'
            /\ ~last'.res.none) =>
          /\ last'.res.kind = "return"
          /\ last'.res.val = IF last'.name = "t" THEN sol'.t
                             ELSE sol'.y[RowOf(last'.name)]

C5_Lifecycle == (last.op = "__init__" => ~hasSol) /\ [][C5_Step]_vars

C5_Witness ==
    /\ hasSol
    /\ Len(sol.t) = 3
    /\ last.op = "solve"
    /\ last.res.kind = "raise"

(***************************************************************************)
(* C6.  Equilibrium is a fixed point: for a configuration the data model   *)
(* admits, the vector field at the all-zero state is the all-zero          *)
(* derivative; and a trajectory solved from the all-zero state is zero in  *)
(* every component at every sampled time.                                  *)
(***************************************************************************)
C6_EquilibriumFixedPoint ==
    /\ ValidConfig =>
          /\ Field(cls, cfg, 0, ZeroState) = Ok(ZeroState)
          /\ (last.op = "__call__" /\ last.y = ZeroState) => last.res = Ok(ZeroState)
    /\ (last.op = "solve" /\ last.res.kind = "ok" /\ last.call.y0 = ZeroState) =>
          /\ hasSol
          /\ \A r \in 1..Len(sol.y) : AllZero(sol.y[r])
          /\ \A name \in TrajectoryProps \cap Props(cls) :
                name # "t" =>
                    LET v == Property(cls, cfg, Instance, name)
                    IN  v.kind = "return" /\ AllZero(v.val)

C6_Witness ==
    /\ ValidConfig
    /\ cls = "DoublePendulum"
    /\ last.op = "solve"
    /\ last.res.kind = "ok"
    /\ last.call.y0 = ZeroState
    /\ Len(sol.t) = 3
    /\ Len(sol.y) = 4

(***************************************************************************)
(* C7.  Whenever a denominator of an angular acceleration satisfies        *)
(* |den| < epsilon, a NumericalHazard is raised or a message is logged:    *)
(* the quotient is never formed silently.  Epsilon counts in units of one  *)
(* mass times one length.                                                  *)
(***************************************************************************)
NearSingular(den) == Abs(den) < Epsilon * SinScale * SinScale

C7_HazardGuard ==
    (last.op \in {"_domega1_dt", "_domega2_dt"} /\ ValidConfig
        /\ NearSingular(last.res.den)) =>
        last.res.exc = "NumericalHazard" \/ last.res.printed # ""

(***************************************************************************)
(* C8.  The attributes solve writes come from one and the same call: dt is *)
(* set only together with the trajectory, and a solve that raises leaves   *)
(* the instance as it was.                                                 *)
(***************************************************************************)
C8_SolveAtomic ==
    [][ValidConfig =>
          /\ hasDt' => (hasSol' /\ dt' = solDt')
          /\ (last'.op = "solve" /\ last'.res.kind = "raise") =>
                (hasSol' = hasSol /\ sol' = sol /\ hasDt' = hasDt /\ dt' = dt)]_vars

(***************************************************************************)
(* C9.  Units: with "rad" the integrator receives the caller's initial     *)
(* state as it is, with "deg" that state converted to radians once; the    *)
(* caller's object holds after the call what it held before, so the same   *)
(* object passed again with the same unit is integrated from the same      *)
(* state, whatever T and dt.                                               *)
(***************************************************************************)
C9_AngleUnits ==
    last.op = "solve" =>
        /\ last.y0After = last.call.y0
        /\ last.res.ivpY0 = IF last.call.angles = "deg" THEN Radians(last.call.y0)
                            ELSE last.call.y0
        /\ \A T \in TValues, d \in DtValues :
              SolveEffect(cls, cfg, Instance, last.y0After, T, d,
                          last.call.angles).out.ivpY0 = last.res.ivpY0

C9_Witness ==
    /\ last.op = "solve"
    /\ last.res.kind = "ok"
    /\ last.call.angles = "deg"
    /\ last.call.y0 = <<60, 30>>
    /\ last.res.ivpY0 = <<2, 1>>
    /\ Len(sol.y) = 2
    /\ sol.y[1][1] = 2

(***************************************************************************)
(* C10.  With M1, M2, L1, L2 all positive the denominator of _domega1_dt   *)
(* is at least M1*L1 and that of _domega2_dt at least M1*L2, whatever the  *)
(* angles: both are positive and the quotient is finite.                   *)
(***************************************************************************)
C10_DenominatorBound ==
    ValidConfig =>
        /\ last.op = "_domega1_dt" =>
              /\ last.res.den >= cfg.M1 * cfg.L1 * SinScale * SinScale
              /\ last.res.den > 0
              /\ last.res.fin
        /\ last.op = "_domega2_dt" =>
              /\ last.res.den >= cfg.M1 * cfg.L2 * SinScale * SinScale
              /\ last.res.den > 0
              /\ last.res.fin

C10_Witness ==
    /\ ValidConfig
    /\ cfg.M2 > 1
    /\ last.op = "_domega1_dt"
    /\ last.res.den = cfg.M1 * cfg.L1 * SinScale * SinScale

=============================================================================
